---------------------------- MODULE Spec2Model ----------------------------
(***************************************************************************)
(* A model of tcb-cli: the chapter-selection parser, the interactive       *)
(* chapter-selection step and the concurrent chapter / image download.     *)
(*                                                                         *)
(* The repository holds three variants of the program:                     *)
(*   "main"     src/cmd/tcb-cli/main.go                                    *)
(*   "part_001" src/unnamed/part_001  (colours, cbz archives)              *)
(*   "part_000" src/unnamed/part_000                                       *)
(* A string is a sequence of typed pieces; a piece is one character, or    *)
(* the three letters "NaN" typed together.                                 *)
(***************************************************************************)
EXTENDS Integers, Sequences, FiniteSets, TLC

(***************************************************************************)
(* Bounds of the model.                                                    *)
(***************************************************************************)
\* longest string handed to parseChapterSelection
MaxInputLen == 5
\* largest number of chapters in a manga's catalogue
MaxCatalogue == 3
\* longest word typed at the "Select chapters" prompt
MaxPromptLen == 3
\* largest number of chapters handed to downloadSelectedChapters
MaxSelected == 2
\* largest number of image URLs of the selected chapters together
MaxImages == 2
\* longest line typed at the cbz question, its newline not counted
MaxAnswerLen == 3
\* longest chapter title scraped from the page
MaxTitleLen == 3

(***************************************************************************)
(* float64 values.  A parsed decimal is kept exactly: its integer part and *)
(* its fraction digits with trailing zeros dropped, so equal numbers are   *)
(* equal records.  NaN is the one value that compares false with all.      *)
(***************************************************************************)
NaN == [nan |-> TRUE, ip |-> 0, frac |-> <<>>]

F(ip, frac) == [nan |-> FALSE, ip |-> ip, frac |-> frac]

FracDigit(f, i) == IF i <= Len(f) THEN f[i] ELSE 0

MaxOf(a, b) == IF a >= b THEN a ELSE b

FracLt(f, g) ==
    \E i \in 1..MaxOf(Len(f), Len(g)) :
        /\ \A j \in 1..(i - 1) : FracDigit(f, j) = FracDigit(g, j)
        /\ FracDigit(f, i) < FracDigit(g, i)

\* a < b on float64: false whenever either side is NaN
Lt(a, b) ==
    /\ ~a.nan
    /\ ~b.nan
    /\ \/ a.ip < b.ip
       \/ a.ip = b.ip /\ FracLt(a.frac, b.frac)

\* a == b on float64: NaN is not equal to itself
Eq(a, b) == ~a.nan /\ ~b.nan /\ a = b

Le(a, b) == Lt(a, b) \/ Eq(a, b)

Gt(a, b) == Lt(b, a)

Ge(a, b) == Le(b, a)

(***************************************************************************)
(* strings.Contains, strings.Split, strings.TrimSpace                      *)
(***************************************************************************)
Contains(s, sep) == \E i \in DOMAIN s : s[i] = sep

IndexOf(s, sep) == CHOOSE i \in DOMAIN s : s[i] = sep /\ \A j \in 1..(i - 1) : s[j] # sep

RECURSIVE Split(_, _)
Split(s, sep) ==
    IF ~Contains(s, sep)
    THEN <<s>>
    ELSE LET i == IndexOf(s, sep)
         IN  <<SubSeq(s, 1, i - 1)>> \o Split(SubSeq(s, i + 1, Len(s)), sep)

\* the white space of the model's strings
WhiteSpace == {" ", "\t", "\n", "\r"}

RECURSIVE TrimSpace(_)
TrimSpace(s) ==
    IF s = <<>> THEN s
    ELSE IF Head(s) \in WhiteSpace THEN TrimSpace(Tail(s))
    ELSE IF s[Len(s)] \in WhiteSpace THEN TrimSpace(SubSeq(s, 1, Len(s) - 1))
    ELSE s

\* strings.ToLower on the letters of the model's strings
ToLowerChar(c) ==
    CASE c = "Y" -> "y" [] c = "E" -> "e" [] c = "S" -> "s"
      [] c = "N" -> "n" [] c = "O" -> "o" [] OTHER -> c

\* a string left in the case it was typed in
NoLower(s) == s

ToLower(s) == [i \in DOMAIN s |-> ToLowerChar(s[i])]

(***************************************************************************)
(* strconv.ParseFloat on the strings of the model: decimal digits with at  *)
(* most one dot and at least one digit, or the word NaN.                   *)
(***************************************************************************)
Digits == {"0", "1", "2", "3", "4", "5", "6", "7", "8", "9"}

DigitVal(c) ==
    CASE c = "0" -> 0 [] c = "1" -> 1 [] c = "2" -> 2 [] c = "3" -> 3
      [] c = "4" -> 4 [] c = "5" -> 5 [] c = "6" -> 6 [] c = "7" -> 7
      [] c = "8" -> 8 [] c = "9" -> 9

RECURSIVE DecValue(_)
DecValue(ds) ==
    IF ds = <<>> THEN 0
    ELSE DecValue(SubSeq(ds, 1, Len(ds) - 1)) * 10 + DigitVal(ds[Len(ds)])

RECURSIVE StripZeros(_)
StripZeros(ds) ==
    IF ds # <<>> /\ ds[Len(ds)] = 0
    THEN StripZeros(SubSeq(ds, 1, Len(ds) - 1))
    ELSE ds

ParseFloat(s) ==
    IF s = <<"NaN">>
    THEN [ok |-> TRUE, val |-> NaN]
    ELSE LET ps == Split(s, ".")
             ip == ps[1]
             fr == IF Len(ps) = 2 THEN ps[2] ELSE <<>>
             wellFormed ==
                 /\ Len(ps) <= 2
                 /\ \A i \in DOMAIN s : s[i] \in Digits \cup {"."}
                 /\ Len(ip) + Len(fr) >= 1
         IN  IF wellFormed
             THEN [ok |-> TRUE,
                   val |-> F(DecValue(ip),
                             StripZeros([i \in DOMAIN fr |-> DigitVal(fr[i])]))]
             ELSE [ok |-> FALSE, val |-> F(0, <<>>)]

(***************************************************************************)
(* map[float64]bool: the keys that are numbers, and the number of NaN      *)
(* entries (a NaN key never equals a key already in the map, so every      *)
(* assignment under a NaN key adds an entry).                              *)
(***************************************************************************)
EmptyMap == [keys |-> {}, nans |-> 0]

MapSet(m, k) ==
    IF k.nan
    THEN [m EXCEPT !.nans = @ + 1]
    ELSE [m EXCEPT !.keys = @ \cup {k}]

\* a sort into decreasing order
RECURSIVE SortDescending(_)
SortDescending(S) ==
    IF S = {} THEN <<>>
    ELSE LET m == CHOOSE x \in S : \A y \in S : ~Lt(x, y)
         IN  <<m>> \o SortDescending(S \ {m})

\* sort.Float64s of the elements of a set of numbers
RECURSIVE SortFloat64s(_)
SortFloat64s(S) ==
    IF S = {} THEN <<>>
    ELSE LET m == CHOOSE x \in S : \A y \in S : ~Lt(y, x)
         IN  <<m>> \o SortFloat64s(S \ {m})

\* mapToSlice: the keys in increasing order, NaN entries first
mapToSlice(chapterMap) ==
    [i \in 1..chapterMap.nans |-> NaN] \o SortFloat64s(chapterMap.keys)

\* mapToSlice's loop "for chapter := range chapterMap" yields the entries in
\* an order the runtime picks: the slices it can build from the entries of s
MapRange(s) == {[i \in DOMAIN s |-> s[p[i]]] : p \in Permutations(DOMAIN s)}

\* the order of sort.Float64s: x < y, or x is NaN and y is not
Float64Less(x, y) == Lt(x, y) \/ (x.nan /\ ~y.nan)

\* insertion sort's inner loop: x moves left past the elements it is less than
RECURSIVE InsertionStep(_, _)
InsertionStep(sorted, x) ==
    IF sorted = <<>> \/ ~Float64Less(x, sorted[Len(sorted)])
    THEN sorted \o <<x>>
    ELSE InsertionStep(SubSeq(sorted, 1, Len(sorted) - 1), x) \o <<sorted[Len(sorted)]>>

\* a slice left as the map's iteration gave it
NoSort(s) == s

\* sort.Float64s on a slice (an insertion sort for the short slices here)
RECURSIVE SortSlice(_)
SortSlice(s) ==
    IF s = <<>> THEN <<>>
    ELSE InsertionStep(SortSlice(SubSeq(s, 1, Len(s) - 1)), s[Len(s)])

(***************************************************************************)
(* parseRange and parseChapterSelection (main.go and part_001)             *)
(***************************************************************************)
parseRange(rangeParts) ==
    LET start == ParseFloat(TrimSpace(rangeParts[1]))
        end   == ParseFloat(TrimSpace(rangeParts[2]))
    IN  IF ~start.ok THEN [err |-> "InvalidStartOfRange", start |-> F(0, <<>>), end |-> F(0, <<>>)]
        ELSE IF ~end.ok THEN [err |-> "InvalidEndOfRange", start |-> F(0, <<>>), end |-> F(0, <<>>)]
        ELSE IF Gt(start.val, end.val)
             THEN [err |-> "InvalidRange", start |-> F(0, <<>>), end |-> F(0, <<>>)]
        ELSE [err |-> "nil", start |-> start.val, end |-> end.val]

\* a range that leaves its bounds out
InRangeExclusive(chapter, start, end) == Gt(chapter, start) /\ Lt(chapter, end)

\* the chapters of availableChapters a range start-end selects
InRange(chapter, start, end) == Ge(chapter, start) /\ Le(chapter, end)

\* a range that selects its own bounds, available or not
RangeChaptersAndBounds(availableChapters, start, end) ==
    {availableChapters[i] : i \in {j \in DOMAIN availableChapters :
                                      Ge(availableChapters[j], start)
                                      /\ Le(availableChapters[j], end)}}
        \cup {start, end}

RangeChapters(availableChapters, start, end) ==
    {availableChapters[i] : i \in {j \in DOMAIN availableChapters :
                                      InRange(availableChapters[j], start, end)}}

RECURSIVE MapSetAll(_, _)
MapSetAll(m, S) ==
    IF S = {} THEN m
    ELSE LET k == CHOOSE x \in S : TRUE
         IN  MapSetAll(MapSet(m, k), S \ {k})

\* the loop over parts, from part i on, with the map built so far
RECURSIVE ParseParts(_, _, _, _)
ParseParts(parts, i, chapterMap, availableChapters) ==
    IF i > Len(parts)
    THEN [err |-> "nil", chapters |-> mapToSlice(chapterMap)]
    ELSE LET part == parts[i]
         IN  IF Contains(part, "-")
             THEN LET rangeParts == Split(part, "-")
                  IN  IF Len(rangeParts) # 2
                      THEN [err |-> "InvalidRangeFormat", chapters |-> <<>>]
                      ELSE LET r == parseRange(rangeParts)
                           IN  IF r.err # "nil"
                               THEN [err |-> r.err, chapters |-> <<>>]
                               ELSE ParseParts(parts, i + 1,
                                        MapSetAll(chapterMap,
                                            RangeChapters(availableChapters, r.start, r.end)),
                                        availableChapters)
             ELSE LET chapter == ParseFloat(TrimSpace(part))
                  IN  IF ~chapter.ok
                      THEN [err |-> "InvalidNumber", chapters |-> <<>>]
                      ELSE ParseParts(parts, i + 1, MapSet(chapterMap, chapter.val),
                                      availableChapters)

\* a parser that reports an empty selection as an error
parseChapterSelectionNonEmpty(in, availableChapters) ==
    LET r == ParseParts(Split(in, ","), 1, EmptyMap, availableChapters)
    IN  IF r.err = "nil" /\ r.chapters = <<>>
        THEN [err |-> "EmptySelection", chapters |-> <<>>]
        ELSE r

parseChapterSelection(in, availableChapters) ==
    ParseParts(Split(in, ","), 1, EmptyMap, availableChapters)

(***************************************************************************)
(* The catalogue: getChapters' result after chapterSelection's stable sort *)
(* by number.  Numbers are scraped, so two chapters may carry the same.    *)
(***************************************************************************)
Chapter(number, title) == [Number |-> number, Title |-> title]

ChapterPool ==
    << Chapter(F(1, <<>>), "a"), Chapter(F(1, <<2>>), "b"), Chapter(F(2, <<>>), "c"),
       Chapter(F(2, <<>>), "d"), Chapter(F(12, <<>>), "e") >>

MinOf(a, b) == IF a <= b THEN a ELSE b

\* a catalogue is a run of at most MaxCatalogue consecutive chapters of the pool
Catalogues ==
    {SubSeq(ChapterPool, w[1], w[1] + w[2] - 1) :
        w \in {v \in (1..Len(ChapterPool)) \X (0..MaxCatalogue) :
                    v[1] + v[2] - 1 <= Len(ChapterPool)}}

\* getChapterNumbers (part_001); the loop of chapterSelection (main.go)
getChapterNumbers(chapters) == [i \in DOMAIN chapters |-> chapters[i].Number]

\* the pieces a string is typed from
Alphabet == {"1", "2", ",", "-", ".", " ", "NaN"}

Strings(n) == UNION {[1..k -> Alphabet] : k \in 0..n}

VARIABLES
    variant,            \* which variant of the program runs
    input,              \* the string handed to parseChapterSelection
    allChapters,        \* the catalogue, sorted by number
    availableChapters,  \* the numbers of allChapters
    ret,                \* what parseChapterSelection returned
    selectedChapters,   \* the chapters the selection resolved to
    status,             \* "running", or how the process ended: "exit0", "exit1", "exit2" (panic)
    pc,                 \* where the main goroutine is
    createCbz,          \* part_001: the answer to the cbz question
    wg,                 \* the counter of downloadSelectedChapters' WaitGroup
    started,            \* the number of chapter goroutines started
    chap,               \* the chapter goroutines
    img                 \* the image goroutines of every chapter

selVars == <<input, allChapters, availableChapters, ret>>

dlVars == <<createCbz, wg, started, chap, img>>

vars == <<variant, selVars, selectedChapters, status, pc, dlVars>>

\* a chapter goroutine that has not been started
IdleChapter ==
    [pc |-> "idle",         \* where the goroutine is
     n |-> 0,               \* len(chapter.ImageURLs)
     spawned |-> 0,         \* image goroutines started
     err |-> "nil",         \* downloadImages' variable err
     lwg |-> 0,             \* part_001: downloadImages' own WaitGroup
     barAdded |-> FALSE,    \* p.AddBar was called
     barTotal |-> 0,
     barCurrent |-> 0,
     archived |-> FALSE,    \* part_001: the cbz was written, the directory removed
     dir |-> {},            \* SpecArchive: the files of the chapter directory
     dirExists |-> FALSE,   \* SpecArchive: the chapter directory exists
     cbz |-> "none",        \* SpecArchive: the file at cbzFilename: "none", "open", "closed", "broken"
     entries |-> {},        \* SpecArchive: the files added to the zip
     walkErr |-> "none",    \* SpecArchive: what filepath.Walk returned
     cbzErr |-> "none",     \* SpecArchive: what createCbzArchive returned: "nil", "error"
     cbzFail |-> "none"]    \* SpecArchive: the step of createCbzArchive that failed

\* an image goroutine that has not been started
IdleImage ==
    [pc |-> "idle",
     own |-> "none",        \* what this goroutine's downloadImage call returned
     incremented |-> 0,     \* its calls of bar.Increment()
     file |-> <<>>,         \* the filename it handed to downloadImage
     url |-> <<>>,          \* the imageURL it handed to downloadImage
     resp |-> "none",       \* SpecImage: what http.Get gave: "error", "2xx", "non2xx"
     created |-> FALSE]     \* SpecImage: os.Create made the file

NoDownload ==
    /\ createCbz = FALSE
    /\ wg = 0
    /\ started = 0
    /\ chap = <<>>
    /\ img = <<>>

NoRet == [err |-> "none", chapters |-> <<>>]

(***************************************************************************)
(* SpecParse: one call of parseChapterSelection (main.go, part_001) on any *)
(* string and any catalogue.                                               *)
(***************************************************************************)
InitParse ==
    /\ variant = "main"
    /\ input \in Strings(MaxInputLen)
    /\ allChapters \in Catalogues
    /\ availableChapters = getChapterNumbers(allChapters)
    /\ ret = NoRet
    /\ selectedChapters = <<>>
    /\ status = "running"
    /\ pc = "call"
    /\ NoDownload

CallParse ==
    /\ pc = "call"
    /\ ret' = parseChapterSelection(input, availableChapters)
    /\ pc' = "returned"
    /\ UNCHANGED <<variant, input, allChapters, availableChapters, selectedChapters, status, dlVars>>

NextParse == CallParse

SpecParse == InitParse /\ [][NextParse]_vars

(***************************************************************************)
(* parseChapterSelection of part_000: the chapters are collected in a      *)
(* slice, duplicates are dropped with a map, the slice is sorted.  A range *)
(* is not compared start against end.                                      *)
(***************************************************************************)
\* the loop "Remove duplicates", from element i of result on
RECURSIVE RemoveDuplicates(_, _, _, _)
RemoveDuplicates(result, i, uniqueMap, uniqueResult) ==
    IF i > Len(result) THEN uniqueResult
    ELSE LET chapter == result[i]
         IN  IF chapter.nan \/ chapter \notin uniqueMap.keys
             THEN RemoveDuplicates(result, i + 1, MapSet(uniqueMap, chapter),
                                   uniqueResult \o <<chapter>>)
             ELSE RemoveDuplicates(result, i + 1, uniqueMap, uniqueResult)

\* the loop over parts, from part i on, with the slice built so far
RECURSIVE ParseParts000(_, _, _, _)
ParseParts000(parts, i, result, available) ==
    IF i > Len(parts)
    THEN [err |-> "nil",
          chapters |-> SortSlice(RemoveDuplicates(result, 1, EmptyMap, <<>>))]
    ELSE LET part == parts[i]
         IN  IF Contains(part, "-")
             THEN LET rangeParts == Split(part, "-")
                  IN  IF Len(rangeParts) # 2
                      THEN [err |-> "InvalidRangeFormat", chapters |-> <<>>]
                      ELSE LET start == ParseFloat(TrimSpace(rangeParts[1]))
                               end   == ParseFloat(TrimSpace(rangeParts[2]))
                           IN  IF ~start.ok \/ ~end.ok
                               THEN [err |-> "InvalidNumber", chapters |-> <<>>]
                               ELSE ParseParts000(parts, i + 1,
                                        result \o SelectSeq(available,
                                                     LAMBDA a : Ge(a, start.val) /\ Le(a, end.val)),
                                        available)
             ELSE LET singleChapter == ParseFloat(TrimSpace(part))
                  IN  IF ~singleChapter.ok
                      THEN [err |-> "InvalidNumber", chapters |-> <<>>]
                      ELSE ParseParts000(parts, i + 1, result \o <<singleChapter.val>>,
                                         available)

parseChapterSelection000(in, available) ==
    ParseParts000(Split(in, ","), 1, <<>>, available)

(***************************************************************************)
(* SpecParseVariants: one call of the parseChapterSelection of any of the  *)
(* three variants.                                                         *)
(***************************************************************************)
ParserVariants == {"main", "part_000", "part_001"}

\* what the parseChapterSelection of variant v returns
ParserOf(v, in, available) ==
    IF v = "part_000" THEN parseChapterSelection000(in, available)
    ELSE parseChapterSelection(in, available)

InitParseVariants ==
    /\ variant \in ParserVariants
    /\ input \in Strings(MaxPromptLen)
    /\ allChapters \in Catalogues
    /\ availableChapters = getChapterNumbers(allChapters)
    /\ ret = NoRet
    /\ selectedChapters = <<>>
    /\ status = "running"
    /\ pc = "call"
    /\ NoDownload

CallParseVariant ==
    /\ pc = "call"
    /\ ret' = ParserOf(variant, input, availableChapters)
    /\ pc' = "returned"
    /\ UNCHANGED <<variant, input, allChapters, availableChapters, selectedChapters, status, dlVars>>

NextParseVariants == CallParseVariant

SpecParseVariants == InitParseVariants /\ [][NextParseVariants]_vars

(***************************************************************************)
(* chapterSelection, as main() runs it.                                    *)
(***************************************************************************)
\* slices.Contains(chapterNumbers, number)
SlicesContains(chapterNumbers, number) ==
    \E i \in DOMAIN chapterNumbers : Eq(chapterNumbers[i], number)

\* main.go: every chapter of the catalogue whose number is selected, in the
\* catalogue's order
RECURSIVE ResolveMain(_, _)
ResolveMain(chapterNumbers, chapters) ==
    IF chapters = <<>> THEN <<>>
    ELSE (IF SlicesContains(chapterNumbers, Head(chapters).Number)
          THEN <<Head(chapters)>> ELSE <<>>)
         \o ResolveMain(chapterNumbers, Tail(chapters))

\* part_001: chapterMap[chapter.Number] = chapter, for the chapters in order;
\* a later chapter with the same number replaces an earlier one
ChapterMapHas(chapters, num) == \E i \in DOMAIN chapters : Eq(chapters[i].Number, num)

ChapterMapGet(chapters, num) ==
    LET i == CHOOSE k \in DOMAIN chapters :
                 /\ Eq(chapters[k].Number, num)
                 /\ \A j \in DOMAIN chapters : Eq(chapters[j].Number, num) => j <= k
    IN  chapters[i]

\* a resolver that answers a missing number with an empty chapter
RECURSIVE getSelectedChaptersPlaceholder(_, _)
getSelectedChaptersPlaceholder(selectedNumbers, chapters) ==
    IF selectedNumbers = <<>> THEN <<>>
    ELSE (IF ChapterMapHas(chapters, Head(selectedNumbers))
          THEN <<ChapterMapGet(chapters, Head(selectedNumbers))>>
          ELSE <<Chapter(Head(selectedNumbers), "")>>)
         \o getSelectedChaptersPlaceholder(Tail(selectedNumbers), chapters)

\* part_001: getSelectedChapters
RECURSIVE getSelectedChapters(_, _)
getSelectedChapters(selectedNumbers, chapters) ==
    IF selectedNumbers = <<>> THEN <<>>
    ELSE (IF ChapterMapHas(chapters, Head(selectedNumbers))
          THEN <<ChapterMapGet(chapters, Head(selectedNumbers))>>
          ELSE <<>>)
         \o getSelectedChapters(Tail(selectedNumbers), chapters)

\* fmt.Scan(&input): one word, never empty and free of white space
ScanWords == {w \in Strings(MaxPromptLen) : w # <<>> /\ ~Contains(w, " ")}

SelectVariants == {"main", "part_001"}

InitSelect ==
    /\ variant \in SelectVariants
    /\ allChapters \in Catalogues
    /\ availableChapters = getChapterNumbers(allChapters)
    /\ input = <<>>
    /\ ret = NoRet
    /\ selectedChapters = <<>>
    /\ status = "running"
    /\ pc = "prompt"
    /\ NoDownload

\* the prompt is answered with a word
ScanInput ==
    /\ pc = "prompt"
    /\ status = "running"
    /\ \E w \in ScanWords : input' = w
    /\ ret' = NoRet
    /\ pc' = "parse"
    /\ UNCHANGED <<variant, allChapters, availableChapters, selectedChapters, status, dlVars>>

\* fmt.Scan fails: main.go prompts again, part_001 returns the error and
\* main() exits with status 1
ScanFails ==
    /\ pc = "prompt"
    /\ status = "running"
    /\ input' = <<>>
    /\ ret' = NoRet
    /\ IF variant = "main"
       THEN pc' = "prompt" /\ status' = status
       ELSE pc' = "exited" /\ status' = "exit1"
    /\ UNCHANGED <<variant, allChapters, availableChapters, selectedChapters, dlVars>>

\* what the caller does with a parse error: main.go reports it and prompts
\* again, part_001 returns it and main() exits with status 1
OnParseError ==
    IF variant = "main"
    THEN pc' = "prompt" /\ status' = status
    ELSE pc' = "exited" /\ status' = "exit1"

\* parseChapterSelection is called on the word
ParseInput ==
    /\ pc = "parse"
    /\ ret' = parseChapterSelection(input, availableChapters)
    /\ IF ret'.err # "nil"
       THEN OnParseError
       ELSE pc' = "resolve" /\ status' = status
    /\ UNCHANGED <<variant, input, allChapters, availableChapters, selectedChapters, dlVars>>

\* the selected numbers are resolved against the catalogue
Resolve ==
    /\ pc = "resolve"
    /\ selectedChapters' =
           IF variant = "main"
           THEN selectedChapters \o ResolveMain(ret.chapters, allChapters)
           ELSE getSelectedChapters(ret.chapters, allChapters)
    /\ pc' = "resolved"
    /\ UNCHANGED <<variant, input, allChapters, availableChapters, ret, status, dlVars>>

\* main.go leaves the loop only with a chapter selected
MayReturn == variant = "main" => Len(selectedChapters) > 0

\* chapterSelection returns and main() starts downloadSelectedChapters
ReturnSelection ==
    /\ pc = "resolved"
    /\ MayReturn
    /\ pc' = "download"
    /\ UNCHANGED <<variant, input, allChapters, availableChapters, ret, selectedChapters, status, dlVars>>

\* main.go: nothing selected, "Invalid selection", prompt again
PromptAgain ==
    /\ pc = "resolved"
    /\ ~MayReturn
    /\ pc' = "prompt"
    /\ UNCHANGED <<variant, input, allChapters, availableChapters, ret, selectedChapters, status, dlVars>>

NextSelect ==
    \/ ScanInput
    \/ ScanFails
    \/ ParseInput
    \/ Resolve
    \/ ReturnSelection
    \/ PromptAgain

SpecSelect == InitSelect /\ [][NextSelect]_vars

(***************************************************************************)
(* SpecCbz: promptForCbzCreation (part_001).  input is the line            *)
(* reader.ReadString gave, its newline included; createCbz is what the     *)
(* function returns.                                                       *)
(***************************************************************************)
AnswerAlphabet == {"y", "e", "s", "n", "o", "Y", "E", "S", "N", "O", " "}

\* the lines that can be typed, each ended by its newline
AnswerLines == {l \o <<"\n">> : l \in UNION {[1..k -> AnswerAlphabet] : k \in 0..MaxAnswerLen}}

InitCbz ==
    /\ variant = "part_001"
    /\ input = <<>>
    /\ allChapters = <<>>
    /\ availableChapters = <<>>
    /\ ret = NoRet
    /\ selectedChapters = <<>>
    /\ status = "running"
    /\ pc = "cbzprompt"
    /\ NoDownload

\* the question is printed and reader.ReadString returns a line
ReadAnswer ==
    /\ pc = "cbzprompt"
    /\ \E line \in AnswerLines : input' = line
    /\ pc' = "cbzswitch"
    /\ UNCHANGED <<variant, allChapters, availableChapters, ret, selectedChapters, status, dlVars>>

\* reader.ReadString returns an error: "Error reading input", and the loop
\* goes round again
ReadStringFails ==
    /\ pc = "cbzprompt"
    /\ UNCHANGED vars

\* the switch on the trimmed, lower-cased line returns, or falls through to
\* the next turn of the loop, where response is a new variable
SwitchAnswer ==
    /\ pc = "cbzswitch"
    /\ LET response == ToLower(TrimSpace(input))
       IN  IF response \in {<<"y">>, <<"y", "e", "s">>}
           THEN createCbz' = TRUE /\ pc' = "cbzreturned" /\ input' = input
           ELSE IF response \in {<<"n">>, <<"n", "o">>, <<>>}
           THEN createCbz' = FALSE /\ pc' = "cbzreturned" /\ input' = input
           ELSE createCbz' = createCbz /\ pc' = "cbzprompt" /\ input' = <<>>
    /\ UNCHANGED <<variant, allChapters, availableChapters, ret, selectedChapters, status,
                   wg, started, chap, img>>

NextCbz ==
    \/ ReadAnswer
    \/ ReadStringFails
    \/ SwitchAnswer

SpecCbz == InitCbz /\ [][NextCbz]_vars

(***************************************************************************)
(* File names of the download: fmt.Sprintf("%03d%s", i+1, extension) in    *)
(* the directory fmt.Sprintf("%03g %s", chapter.Number, chapter.Title).    *)
(***************************************************************************)
DigitChar(d) ==
    CASE d = 0 -> "0" [] d = 1 -> "1" [] d = 2 -> "2" [] d = 3 -> "3"
      [] d = 4 -> "4" [] d = 5 -> "5" [] d = 6 -> "6" [] d = 7 -> "7"
      [] d = 8 -> "8" [] d = 9 -> "9"

\* %d
RECURSIVE FormatInt(_)
FormatInt(n) ==
    IF n < 10 THEN <<DigitChar(n)>>
    ELSE FormatInt(n \div 10) \o <<DigitChar(n % 10)>>

\* the width 3 with the flag 0: zeros in front up to three characters
RECURSIVE PadZero3(_)
PadZero3(s) == IF Len(s) >= 3 THEN s ELSE PadZero3(<<"0">> \o s)

\* an index that is not put into the name
SprintfNoIndex(n) == <<"0", "0", "0">>

\* %03d
Sprintf03d(n) == PadZero3(FormatInt(n))

\* %03g of a chapter number
Sprintf03g(number) ==
    IF number.nan THEN <<"NaN">>
    ELSE PadZero3(FormatInt(number.ip)
                  \o (IF number.frac = <<>> THEN <<>>
                      ELSE <<".">> \o [i \in DOMAIN number.frac |-> DigitChar(number.frac[i])]))

\* dirPath below selectedDownloadLocation/manga.Title
DirPath(chapter) == TrimSpace(Sprintf03g(chapter.Number) \o <<" ">> \o <<chapter.Title>>)

\* the image URLs getImageURLs scrapes, in page order
ImageURLPool == << <<"p", ".", "j", "p", "g">>, <<"q", ".", "p", "n", "g">>, <<"r">>, <<"s", ".", "j", "p", "g">> >>

ImageURL(k) == ImageURLPool[((k - 1) % Len(ImageURLPool)) + 1]

\* filepath.Ext: the suffix from the last dot on, empty without a dot
RECURSIVE Ext(_)
Ext(path) ==
    IF ~Contains(path, ".") THEN <<>>
    ELSE LET rest == SubSeq(path, IndexOf(path, ".") + 1, Len(path))
         IN  IF Contains(rest, ".") THEN Ext(rest) ELSE <<".">> \o rest

\* the path the image goroutine with index i (from 0) writes
Filename(chapter, i, imageURL) == <<DirPath(chapter), Sprintf03d(i + 1) \o Ext(imageURL)>>

(***************************************************************************)
(* downloadSelectedChapters, downloadImages and their goroutines (main.go  *)
(* and part_001).  log.Fatalf and os.Exit(1) end the process at once.      *)
(***************************************************************************)
DownloadVariants == {"main", "part_001"}

NumSelected == Len(selectedChapters)

Running == status = "running"

\* the image goroutines downloadImages starts for chapter c
ImagesOf(c) == 1..chap[c].n

\* every downloadImages call with a WaitGroup of its own
OwnWg == FALSE

\* main.go hands its image goroutines downloadSelectedChapters' WaitGroup;
\* part_001 gives every downloadImages call a WaitGroup of its own
SharedWg == variant = "main"

InitDownload ==
    /\ variant \in DownloadVariants
    /\ selectedChapters \in
           {SubSeq(ChapterPool, 1, n) :
               n \in (IF variant = "main" THEN 1 ELSE 0)..MinOf(MaxSelected, Len(ChapterPool))}
    /\ createCbz \in (IF variant = "part_001" THEN BOOLEAN ELSE {FALSE})
    /\ input = <<>>
    /\ allChapters = <<>>
    /\ availableChapters = <<>>
    /\ ret = NoRet
    /\ status = "running"
    /\ pc = "spawn"
    /\ wg = 0
    /\ started = 0
    /\ chap = [c \in 1..NumSelected |-> IdleChapter]
    /\ img = [c \in 1..NumSelected |-> [k \in 1..MaxImages |-> IdleImage]]

\* log.Fatalf / os.Exit(1): the process ends with status 1
Fatal ==
    /\ status' = "exit1"
    /\ UNCHANGED <<variant, selVars, selectedChapters, pc, dlVars>>

\* downloadSelectedChapters: wg.Add(1); go func(chapter) for the next chapter
GoChapter ==
    /\ Running
    /\ pc = "spawn"
    /\ started < NumSelected
    /\ wg' = wg + 1
    /\ started' = started + 1
    /\ chap' = [chap EXCEPT ![started + 1].pc = "getImageURLs"]
    /\ UNCHANGED <<variant, selVars, selectedChapters, status, pc, createCbz, img>>

\* a progress container made without mpb.WithWaitGroup
NoUserWg == TRUE

\* p.Wait() first waits on the WaitGroup given with mpb.WithWaitGroup(&wg)
UserWgDone == wg = 0

\* downloadSelectedChapters: the loop is over and p.Wait() is called; its
\* wait on the WaitGroup returns
PWaitUserWg ==
    /\ Running
    /\ pc = "spawn"
    /\ started = NumSelected
    /\ UserWgDone
    /\ pc' = "barwait"
    /\ UNCHANGED <<variant, selVars, selectedChapters, status, dlVars>>

\* a bar is complete once its count reaches its total; a bar added with a
\* total of 0 is not completed by increments
BarComplete(c) == chap[c].barTotal > 0 /\ chap[c].barCurrent >= chap[c].barTotal

\* a p.Wait() has returned and so has shut the container down: the one of
\* downloadSelectedChapters (main.go, part_001), or the one a chapter
\* goroutine of part_000 calls at the end of downloadImages
PShutdown ==
    IF variant = "part_000"
    THEN \E c \in 1..NumSelected : chap[c].pc \in {"return", "done"}
    ELSE pc \in {"returned", "exited"}

\* p.Wait() then waits for every bar added to be complete, and returns
PWaitBars ==
    /\ Running
    /\ pc = "barwait"
    /\ \A c \in 1..NumSelected : chap[c].barAdded => BarComplete(c)
    /\ pc' = "returned"
    /\ UNCHANGED <<variant, selVars, selectedChapters, status, dlVars>>

\* downloadSelectedChapters has returned: main() returns, the process ends
\* with status 0
MainReturns ==
    /\ Running
    /\ pc = "returned"
    /\ pc' = "exited"
    /\ status' = "exit0"
    /\ UNCHANGED <<variant, selVars, selectedChapters, dlVars>>

\* the image URLs the chapters have got so far
RECURSIVE SumImages(_)
SumImages(c) == IF c = 0 THEN 0 ELSE chap[c].n + SumImages(c - 1)

\* chapter goroutine: getImageURLs returns the chapter's image URLs
GetImageURLs(c) ==
    /\ Running
    /\ chap[c].pc = "getImageURLs"
    /\ \E n \in 0..(MaxImages - SumImages(NumSelected)) :
           chap' = [chap EXCEPT ![c].n = n, ![c].pc = "mkdir"]
    /\ UNCHANGED <<variant, selVars, selectedChapters, status, pc, createCbz, wg, started, img>>

\* chapter goroutine: getImageURLs fails
GetImageURLsFails(c) ==
    /\ Running
    /\ chap[c].pc = "getImageURLs"
    /\ Fatal

\* downloadImages: err := os.MkdirAll(dirPath) succeeds
MkdirAll(c) ==
    /\ Running
    /\ chap[c].pc = "mkdir"
    /\ chap' = [chap EXCEPT ![c].err = "nil", ![c].pc = "addbar"]
    /\ UNCHANGED <<variant, selVars, selectedChapters, status, pc, createCbz, wg, started, img>>

\* downloadImages: os.MkdirAll fails, downloadImages returns the error and
\* the chapter goroutine ends the process
MkdirAllFails(c) ==
    /\ Running
    /\ chap[c].pc = "mkdir"
    /\ Fatal

\* downloadImages: bar := p.AddBar(int64(len(chapter.ImageURLs)))
AddBar(c) ==
    /\ Running
    /\ chap[c].pc = "addbar"
    /\ ~PShutdown
    /\ chap' = [chap EXCEPT ![c].barAdded = TRUE,
                            ![c].barTotal = chap[c].n,
                            ![c].pc = "images"]
    /\ UNCHANGED <<variant, selVars, selectedChapters, status, pc, createCbz, wg, started, img>>

\* downloadImages: wg.Add(1); go func(i, imageURL) for the next image
GoImage(c) ==
    /\ Running
    /\ chap[c].pc = "images"
    /\ chap[c].spawned < chap[c].n
    /\ IF SharedWg
       THEN /\ wg' = wg + 1
            /\ chap' = [chap EXCEPT ![c].spawned = @ + 1]
       ELSE /\ wg' = wg
            /\ chap' = [chap EXCEPT ![c].spawned = @ + 1, ![c].lwg = @ + 1]
    /\ img' = [img EXCEPT ![c][chap[c].spawned + 1].pc = "download"]
    /\ UNCHANGED <<variant, selVars, selectedChapters, status, pc, createCbz, started>>

\* a wg.Wait() that does not wait
NoLocalWait(c) == TRUE

\* part_001, part_000 downloadImages: the counter of its own WaitGroup is zero
LocalWgDone(c) == chap[c].lwg = 0

\* part_001, part_000 downloadImages: wg.Wait() on its own WaitGroup returns
WgWait(c) ==
    /\ Running
    /\ ~SharedWg
    /\ chap[c].pc = "images"
    /\ chap[c].spawned = chap[c].n
    /\ LocalWgDone(c)
    /\ chap' = [chap EXCEPT ![c].pc = IF variant = "part_000" THEN "pwait"
                                       ELSE IF createCbz THEN "archive"
                                       ELSE "return"]
    /\ UNCHANGED <<variant, selVars, selectedChapters, status, pc, createCbz, wg, started, img>>

\* part_001 downloadImages: createCbzArchive and os.RemoveAll succeed (the
\* concurrent download takes the archive step as one; SpecArchive takes it apart)
Archive(c) ==
    /\ Running
    /\ chap[c].pc = "archive"
    /\ chap' = [chap EXCEPT ![c].archived = TRUE, ![c].err = "nil", ![c].pc = "return"]
    /\ UNCHANGED <<variant, selVars, selectedChapters, status, pc, createCbz, wg, started, img>>

\* part_001 downloadImages: createCbzArchive or os.RemoveAll fails,
\* downloadImages returns the error and the chapter goroutine ends the process
ArchiveFails(c) ==
    /\ Running
    /\ chap[c].pc = "archive"
    /\ Fatal

\* downloadImages returns nil (main.go: as soon as the image goroutines are
\* started) and the chapter goroutine's deferred wg.Done() runs
ChapterReturns(c) ==
    /\ Running
    /\ \/ chap[c].pc = "return"
       \/ SharedWg /\ chap[c].pc = "images" /\ chap[c].spawned = chap[c].n
    /\ wg' = wg - 1
    /\ chap' = [chap EXCEPT ![c].pc = "done"]
    /\ UNCHANGED <<variant, selVars, selectedChapters, status, pc, createCbz, started, img>>

\* downloadImage, by what http.Get gives and the step that fails: http.Get
\* returns an error only when no response came; a response of any status
\* goes on to os.Create and io.Copy
HTTPResults == {"error", "2xx", "non2xx"}

DownloadSteps == {"none", "create", "copy"}

downloadImage(resp, failure, filename) ==
    IF resp = "error" THEN [err |-> "error", file |-> <<>>]
    ELSE IF failure = "create" THEN [err |-> "error", file |-> <<>>]
    ELSE IF failure = "copy" THEN [err |-> "error", file |-> filename]
    ELSE [err |-> "nil", file |-> filename]

\* a goroutine that reads the loop's variable i when it runs
LoopVariable(c, k) == chap[c].spawned - 1

\* go func(i int, imageURL string) { ... }(i, imageURL): the k-th goroutine of
\* a chapter is handed the loop's i and imageURL as they are when it is started
ImageIndex(c, k) == k - 1

\* image goroutine: the imageURL it was handed
ImageArgURL(c, k) == ImageURL(ImageIndex(c, k) + 1)

\* image goroutine: filename := filepath.Join(dirPath, fmt.Sprintf("%03d%s", i+1, extension))
ImageFilename(c, k) == Filename(selectedChapters[c], ImageIndex(c, k), ImageArgURL(c, k))

\* the errors downloadImage can return for a filename
DownloadErrors(filename) ==
    {downloadImage(resp, failure, filename).err : resp \in HTTPResults, failure \in DownloadSteps}

\* image goroutine: err = downloadImage(imageURL, filename), err being the
\* one variable of downloadImages that all its image goroutines assign
DownloadImage(c, k) ==
    /\ Running
    /\ img[c][k].pc = "download"
    /\ \E r \in DownloadErrors(ImageFilename(c, k)) :
           /\ img' = [img EXCEPT ![c][k].own = r,
                                 ![c][k].file = ImageFilename(c, k),
                                 ![c][k].url = ImageArgURL(c, k),
                                 ![c][k].pc = "check"]
           /\ chap' = [chap EXCEPT ![c].err = r]
    /\ UNCHANGED <<variant, selVars, selectedChapters, status, pc, createCbz, wg, started>>

\* image goroutine: if err != nil, end the process
CheckErrFatal(c, k) ==
    /\ Running
    /\ img[c][k].pc = "check"
    /\ chap[c].err # "nil"
    /\ Fatal

\* image goroutine: err is nil, go on
CheckErrNil(c, k) ==
    /\ Running
    /\ img[c][k].pc = "check"
    /\ chap[c].err = "nil"
    /\ img' = [img EXCEPT ![c][k].pc = "increment"]
    /\ UNCHANGED <<variant, selVars, selectedChapters, status, pc, createCbz, wg, started, chap>>

\* an image goroutine that counts its image twice
IncrementTwice(c, k) ==
    /\ Running
    /\ img[c][k].pc = "increment"
    /\ chap' = [chap EXCEPT ![c].barCurrent = @ + 2]
    /\ img' = [img EXCEPT ![c][k].incremented = @ + 1, ![c][k].pc = "deferred"]
    /\ UNCHANGED <<variant, selVars, selectedChapters, status, pc, createCbz, wg, started>>

\* image goroutine: bar.Increment()
Increment(c, k) ==
    /\ Running
    /\ img[c][k].pc = "increment"
    /\ chap' = [chap EXCEPT ![c].barCurrent = @ + 1]
    /\ img' = [img EXCEPT ![c][k].incremented = @ + 1, ![c][k].pc = "deferred"]
    /\ UNCHANGED <<variant, selVars, selectedChapters, status, pc, createCbz, wg, started>>

\* image goroutine: the deferred wg.Done()
ImageDone(c, k) ==
    /\ Running
    /\ img[c][k].pc = "deferred"
    /\ IF SharedWg
       THEN wg' = wg - 1 /\ chap' = chap
       ELSE wg' = wg /\ chap' = [chap EXCEPT ![c].lwg = @ - 1]
    /\ img' = [img EXCEPT ![c][k].pc = "done"]
    /\ UNCHANGED <<variant, selVars, selectedChapters, status, pc, createCbz, started>>

NextDownload ==
    \/ GoChapter
    \/ PWaitUserWg
    \/ PWaitBars
    \/ MainReturns
    \/ \E c \in 1..NumSelected : GetImageURLs(c)
    \/ \E c \in 1..NumSelected : GetImageURLsFails(c)
    \/ \E c \in 1..NumSelected : MkdirAll(c)
    \/ \E c \in 1..NumSelected : MkdirAllFails(c)
    \/ \E c \in 1..NumSelected : AddBar(c)
    \/ \E c \in 1..NumSelected : GoImage(c)
    \/ \E c \in 1..NumSelected : WgWait(c)
    \/ \E c \in 1..NumSelected : Archive(c)
    \/ \E c \in 1..NumSelected : ArchiveFails(c)
    \/ \E c \in 1..NumSelected : ChapterReturns(c)
    \/ \E c \in 1..NumSelected, k \in 1..MaxImages : DownloadImage(c, k)
    \/ \E c \in 1..NumSelected, k \in 1..MaxImages : CheckErrFatal(c, k)
    \/ \E c \in 1..NumSelected, k \in 1..MaxImages : CheckErrNil(c, k)
    \/ \E c \in 1..NumSelected, k \in 1..MaxImages : Increment(c, k)
    \/ \E c \in 1..NumSelected, k \in 1..MaxImages : ImageDone(c, k)

SpecDownload == InitDownload /\ [][NextDownload]_vars

(***************************************************************************)
(* SpecDownload000: the download of part_000.  The container is made with  *)
(* mpb.New() alone, every downloadImages call ends with wg.Wait() on its   *)
(* own WaitGroup and p.Wait() on the shared container, and                 *)
(* downloadSelectedChapters ends with wg.Wait().  The other steps are      *)
(* those of part_001 without the archive.                                  *)
(***************************************************************************)
InitDownload000 ==
    /\ variant = "part_000"
    /\ selectedChapters \in
           {SubSeq(ChapterPool, 1, n) : n \in 1..MinOf(MaxSelected, Len(ChapterPool))}
    /\ createCbz = FALSE
    /\ input = <<>>
    /\ allChapters = <<>>
    /\ availableChapters = <<>>
    /\ ret = NoRet
    /\ status = "running"
    /\ pc = "spawn"
    /\ wg = 0
    /\ started = 0
    /\ chap = [c \in 1..NumSelected |-> IdleChapter]
    /\ img = [c \in 1..NumSelected |-> [k \in 1..MaxImages |-> IdleImage]]

\* downloadImages: p.AddBar on a container that is shut down panics; the
\* panic of a goroutine ends the process with status 2
AddBarPanics(c) ==
    /\ Running
    /\ chap[c].pc = "addbar"
    /\ PShutdown
    /\ status' = "exit2"
    /\ UNCHANGED <<variant, selVars, selectedChapters, pc, dlVars>>

\* downloadImages: p.Wait() waits for every bar added so far to be complete,
\* shuts the container down and returns
ChapterPWait(c) ==
    /\ Running
    /\ chap[c].pc = "pwait"
    /\ \A d \in 1..NumSelected : chap[d].barAdded => BarComplete(d)
    /\ chap' = [chap EXCEPT ![c].pc = "return"]
    /\ UNCHANGED <<variant, selVars, selectedChapters, status, pc, createCbz, wg, started, img>>

\* downloadSelectedChapters: the loop is over and wg.Wait() returns
OuterWgWait ==
    /\ Running
    /\ pc = "spawn"
    /\ started = NumSelected
    /\ wg = 0
    /\ pc' = "returned"
    /\ UNCHANGED <<variant, selVars, selectedChapters, status, dlVars>>

NextDownload000 ==
    \/ GoChapter
    \/ OuterWgWait
    \/ MainReturns
    \/ \E c \in 1..NumSelected : GetImageURLs(c)
    \/ \E c \in 1..NumSelected : GetImageURLsFails(c)
    \/ \E c \in 1..NumSelected : MkdirAll(c)
    \/ \E c \in 1..NumSelected : MkdirAllFails(c)
    \/ \E c \in 1..NumSelected : AddBar(c)
    \/ \E c \in 1..NumSelected : AddBarPanics(c)
    \/ \E c \in 1..NumSelected : GoImage(c)
    \/ \E c \in 1..NumSelected : WgWait(c)
    \/ \E c \in 1..NumSelected : ChapterPWait(c)
    \/ \E c \in 1..NumSelected : ChapterReturns(c)
    \/ \E c \in 1..NumSelected, k \in 1..MaxImages : DownloadImage(c, k)
    \/ \E c \in 1..NumSelected, k \in 1..MaxImages : CheckErrFatal(c, k)
    \/ \E c \in 1..NumSelected, k \in 1..MaxImages : CheckErrNil(c, k)
    \/ \E c \in 1..NumSelected, k \in 1..MaxImages : Increment(c, k)
    \/ \E c \in 1..NumSelected, k \in 1..MaxImages : ImageDone(c, k)

SpecDownload000 == InitDownload000 /\ [][NextDownload000]_vars

(***************************************************************************)
(* FairDownload: the download under the Go scheduler, which lets every     *)
(* goroutine that can take a step take one eventually.                     *)
(***************************************************************************)
\* the steps of the main goroutine
MainStep == GoChapter \/ PWaitUserWg \/ PWaitBars \/ MainReturns

\* the steps of the goroutine of chapter c
ChapterStep(c) ==
    /\ c \in 1..NumSelected
    /\ \/ GetImageURLs(c) \/ GetImageURLsFails(c)
       \/ MkdirAll(c) \/ MkdirAllFails(c)
       \/ AddBar(c) \/ GoImage(c) \/ WgWait(c)
       \/ Archive(c) \/ ArchiveFails(c)
       \/ ChapterReturns(c)

\* the steps of the goroutine of image k of chapter c
ImageStep(c, k) ==
    /\ c \in 1..NumSelected
    /\ \/ DownloadImage(c, k)
       \/ CheckErrFatal(c, k) \/ CheckErrNil(c, k)
       \/ Increment(c, k)
       \/ ImageDone(c, k)

FairDownload ==
    /\ SpecDownload
    /\ WF_vars(MainStep)
    /\ \A c \in 1..MaxSelected : WF_vars(ChapterStep(c))
    /\ \A c \in 1..MaxSelected, k \in 1..MaxImages : WF_vars(ImageStep(c, k))

(***************************************************************************)
(* SpecArchive: the archive step of part_001's downloadImages for one      *)
(* chapter, createCbzArchive and addFileToZip taken apart.  It starts      *)
(* where wg.Wait() has returned: the image goroutines are done and the     *)
(* chapter directory holds the files that were created.                    *)
(***************************************************************************)
\* the files of chapter c's directory that are not in the zip yet
Remaining(c) == chap[c].dir \ chap[c].entries

\* filepath.Walk visits the files in lexical order: the next one is the one
\* with the lowest index
NextFile(c) ==
    LET k == CHOOSE j \in ImagesOf(c) :
                 /\ img[c][j].file \in Remaining(c)
                 /\ \A i \in 1..(j - 1) : img[c][i].file \notin Remaining(c)
    IN  img[c][k].file

\* the sets of files a directory can hold when all n image goroutines are
\* done: the goroutine that assigned err last created its file
DirContents(chapter, n) ==
    {D \in SUBSET {Filename(chapter, k - 1, ImageURL(k)) : k \in 1..n} : n >= 1 => D # {}}

InitArchive ==
    /\ variant = "part_001"
    /\ createCbz = TRUE
    /\ \E i \in DOMAIN ChapterPool : selectedChapters = <<ChapterPool[i]>>
    /\ input = <<>>
    /\ allChapters = <<>>
    /\ availableChapters = <<>>
    /\ ret = NoRet
    /\ status = "running"
    /\ pc = "spawn"
    /\ wg = 1
    /\ started = 1
    /\ \E n \in 0..MaxImages : \E D \in DirContents(selectedChapters[1], n) :
           /\ chap = <<[IdleChapter EXCEPT !.pc = "archive", !.n = n, !.spawned = n,
                                           !.barAdded = TRUE, !.barTotal = n,
                                           !.barCurrent = n, !.dir = D,
                                           !.dirExists = TRUE]>>
           /\ img = <<[k \in 1..MaxImages |->
                         IF k <= n
                         THEN [IdleImage EXCEPT
                                  !.pc = "done",
                                  !.own = IF Filename(selectedChapters[1], k - 1, ImageURL(k)) \in D
                                          THEN "nil" ELSE "error",
                                  !.incremented = 1,
                                  !.file = Filename(selectedChapters[1], k - 1, ImageURL(k))]
                         ELSE IdleImage]>>

\* createCbzArchive: os.Create(cbzFilename) succeeds
OsCreateCbz(c) ==
    /\ Running
    /\ chap[c].pc = "archive"
    /\ chap' = [chap EXCEPT ![c].cbz = "open", ![c].pc = "walk"]
    /\ UNCHANGED <<variant, selVars, selectedChapters, status, pc, createCbz, wg, started, img>>

\* createCbzArchive: os.Create fails and the error is returned
OsCreateCbzFails(c) ==
    /\ Running
    /\ chap[c].pc = "archive"
    /\ chap' = [chap EXCEPT ![c].cbzFail = "create", ![c].cbzErr = "error",
                            ![c].err = "error", ![c].pc = "failed"]
    /\ UNCHANGED <<variant, selVars, selectedChapters, status, pc, createCbz, wg, started, img>>

\* filepath.Walk: addFileToZip adds the next file of the directory
AddFileToZip(c) ==
    /\ Running
    /\ chap[c].pc = "walk"
    /\ Remaining(c) # {}
    /\ chap' = [chap EXCEPT ![c].entries = @ \cup {NextFile(c)}]
    /\ UNCHANGED <<variant, selVars, selectedChapters, status, pc, createCbz, wg, started, img>>

\* filepath.Walk: addFileToZip fails on the next file (os.Open,
\* zipWriter.Create or io.Copy); Walk stops and returns the error
AddFileToZipFails(c) ==
    /\ Running
    /\ chap[c].pc = "walk"
    /\ Remaining(c) # {}
    /\ chap' = [chap EXCEPT ![c].cbzFail = "add", ![c].walkErr = "error", ![c].pc = "zipclose"]
    /\ UNCHANGED <<variant, selVars, selectedChapters, status, pc, createCbz, wg, started, img>>

\* filepath.Walk has visited every file and returns nil
WalkReturns(c) ==
    /\ Running
    /\ chap[c].pc = "walk"
    /\ Remaining(c) = {}
    /\ chap' = [chap EXCEPT ![c].walkErr = "nil", ![c].pc = "zipclose"]
    /\ UNCHANGED <<variant, selVars, selectedChapters, status, pc, createCbz, wg, started, img>>

\* createCbzArchive returns filepath.Walk's error, whatever the deferred
\* zipWriter.Close() and cbzFile.Close() did
ReturnWalkErr(c, cbz, failure) ==
    chap' = [chap EXCEPT ![c].cbz = cbz,
                         ![c].cbzFail = failure,
                         ![c].cbzErr = chap[c].walkErr,
                         ![c].err = chap[c].walkErr,
                         ![c].pc = IF chap[c].walkErr = "nil" THEN "removeall" ELSE "failed"]

\* the deferred zipWriter.Close() succeeds: the central directory is written
ZipWriterClose(c) ==
    /\ Running
    /\ chap[c].pc = "zipclose"
    /\ ReturnWalkErr(c, "closed", chap[c].cbzFail)
    /\ UNCHANGED <<variant, selVars, selectedChapters, status, pc, createCbz, wg, started, img>>

\* the deferred zipWriter.Close() fails: the error is printed, not returned
ZipWriterCloseFails(c) ==
    /\ Running
    /\ chap[c].pc = "zipclose"
    /\ ReturnWalkErr(c, "broken", IF chap[c].cbzFail = "none" THEN "close" ELSE chap[c].cbzFail)
    /\ UNCHANGED <<variant, selVars, selectedChapters, status, pc, createCbz, wg, started, img>>

\* downloadImages: createCbzArchive returned an error, downloadImages returns
\* it and the chapter goroutine ends the process
CreateCbzArchiveFailed(c) ==
    /\ Running
    /\ chap[c].pc = "failed"
    /\ Fatal

\* downloadImages: err = os.RemoveAll(dirPath) succeeds
RemoveAll(c) ==
    /\ Running
    /\ chap[c].pc = "removeall"
    /\ chap' = [chap EXCEPT ![c].dir = {}, ![c].dirExists = FALSE, ![c].archived = TRUE,
                            ![c].err = "nil", ![c].pc = "return"]
    /\ UNCHANGED <<variant, selVars, selectedChapters, status, pc, createCbz, wg, started, img>>

\* downloadImages: os.RemoveAll fails, downloadImages returns the error and
\* the chapter goroutine ends the process
RemoveAllFails(c) ==
    /\ Running
    /\ chap[c].pc = "removeall"
    /\ Fatal

NextArchive ==
    \/ \E c \in 1..NumSelected : OsCreateCbz(c)
    \/ \E c \in 1..NumSelected : OsCreateCbzFails(c)
    \/ \E c \in 1..NumSelected : AddFileToZip(c)
    \/ \E c \in 1..NumSelected : AddFileToZipFails(c)
    \/ \E c \in 1..NumSelected : WalkReturns(c)
    \/ \E c \in 1..NumSelected : ZipWriterClose(c)
    \/ \E c \in 1..NumSelected : ZipWriterCloseFails(c)
    \/ \E c \in 1..NumSelected : CreateCbzArchiveFailed(c)
    \/ \E c \in 1..NumSelected : RemoveAll(c)
    \/ \E c \in 1..NumSelected : RemoveAllFails(c)
    \/ \E c \in 1..NumSelected : ChapterReturns(c)

SpecArchive == InitArchive /\ [][NextArchive]_vars

(***************************************************************************)
(* SpecImage: one image goroutine of downloadImages, downloadImage taken   *)
(* apart (main.go and part_001).  The images before it are downloaded.     *)
(***************************************************************************)
InitImage ==
    /\ variant \in DownloadVariants
    /\ createCbz = FALSE
    /\ \E i \in DOMAIN ChapterPool : selectedChapters = <<ChapterPool[i]>>
    /\ input = <<>>
    /\ allChapters = <<>>
    /\ availableChapters = <<>>
    /\ ret = NoRet
    /\ status = "running"
    /\ pc = "spawn"
    /\ started = 1
    /\ \E n \in 1..MaxImages :
           /\ wg = IF SharedWg THEN 2 ELSE 1
           /\ chap = <<[IdleChapter EXCEPT !.pc = "images", !.n = n, !.spawned = n,
                                           !.lwg = IF SharedWg THEN 0 ELSE 1,
                                           !.barAdded = TRUE, !.barTotal = n,
                                           !.barCurrent = n - 1]>>
           /\ img = <<[k \in 1..MaxImages |->
                         IF k < n
                         THEN [IdleImage EXCEPT !.pc = "done", !.own = "nil", !.incremented = 1,
                                                !.file = ImageFilename(1, k)]
                         ELSE IF k = n THEN [IdleImage EXCEPT !.pc = "download"]
                         ELSE IdleImage]>>

\* downloadImage returns err to the image goroutine, which assigns it
ReturnFromDownloadImage(c, k, err) ==
    /\ img' = [img EXCEPT ![c][k].own = err, ![c][k].pc = "check"]
    /\ chap' = [chap EXCEPT ![c].err = err]

\* downloadImage: http.Get returns a response, whatever its status
HttpGet(c, k) ==
    /\ Running
    /\ img[c][k].pc = "download"
    /\ \E resp \in HTTPResults \ {"error"} :
           img' = [img EXCEPT ![c][k].resp = resp, ![c][k].file = ImageFilename(c, k),
                              ![c][k].pc = "create"]
    /\ UNCHANGED <<variant, selVars, selectedChapters, status, pc, createCbz, wg, started, chap>>

\* downloadImage: http.Get returns an error
HttpGetFails(c, k) ==
    /\ Running
    /\ img[c][k].pc = "download"
    /\ img' = [img EXCEPT ![c][k].resp = "error", ![c][k].file = ImageFilename(c, k),
                          ![c][k].own = "error", ![c][k].pc = "check"]
    /\ chap' = [chap EXCEPT ![c].err = "error"]
    /\ UNCHANGED <<variant, selVars, selectedChapters, status, pc, createCbz, wg, started>>

\* downloadImage: os.Create(filename) succeeds
OsCreate(c, k) ==
    /\ Running
    /\ img[c][k].pc = "create"
    /\ img' = [img EXCEPT ![c][k].created = TRUE, ![c][k].pc = "copy"]
    /\ UNCHANGED <<variant, selVars, selectedChapters, status, pc, createCbz, wg, started, chap>>

\* downloadImage: os.Create fails
OsCreateFails(c, k) ==
    /\ Running
    /\ img[c][k].pc = "create"
    /\ ReturnFromDownloadImage(c, k, "error")
    /\ UNCHANGED <<variant, selVars, selectedChapters, status, pc, createCbz, wg, started>>

\* downloadImage: io.Copy(out, resp.Body) succeeds and nil is returned
IoCopy(c, k) ==
    /\ Running
    /\ img[c][k].pc = "copy"
    /\ ReturnFromDownloadImage(c, k, "nil")
    /\ UNCHANGED <<variant, selVars, selectedChapters, status, pc, createCbz, wg, started>>

\* downloadImage: io.Copy fails
IoCopyFails(c, k) ==
    /\ Running
    /\ img[c][k].pc = "copy"
    /\ ReturnFromDownloadImage(c, k, "error")
    /\ UNCHANGED <<variant, selVars, selectedChapters, status, pc, createCbz, wg, started>>

NextImage ==
    \/ \E c \in 1..NumSelected, k \in 1..MaxImages : HttpGet(c, k)
    \/ \E c \in 1..NumSelected, k \in 1..MaxImages : HttpGetFails(c, k)
    \/ \E c \in 1..NumSelected, k \in 1..MaxImages : OsCreate(c, k)
    \/ \E c \in 1..NumSelected, k \in 1..MaxImages : OsCreateFails(c, k)
    \/ \E c \in 1..NumSelected, k \in 1..MaxImages : IoCopy(c, k)
    \/ \E c \in 1..NumSelected, k \in 1..MaxImages : IoCopyFails(c, k)
    \/ \E c \in 1..NumSelected, k \in 1..MaxImages : CheckErrFatal(c, k)
    \/ \E c \in 1..NumSelected, k \in 1..MaxImages : CheckErrNil(c, k)
    \/ \E c \in 1..NumSelected, k \in 1..MaxImages : Increment(c, k)
    \/ \E c \in 1..NumSelected, k \in 1..MaxImages : ImageDone(c, k)

SpecImage == InitImage /\ [][NextImage]_vars

(***************************************************************************)
(* SpecTitle: getCleanChapterTitle on the text getChapters scrapes (the    *)
(* same in the three variants).  input is e.ChildText(...), the chapter    *)
(* appended to the catalogue carries the cleaned title.                    *)
(***************************************************************************)
\* the class of the pattern [<>:"/\\|?*]
IllegalChars == {"<", ">", ":", "\"", "/", "\\", "|", "?", "*"}

\* strings.Trim(s, cutset): the characters of cutset taken off both ends
RECURSIVE Trim(_, _)
Trim(s, cutset) ==
    IF s = <<>> THEN s
    ELSE IF Head(s) \in cutset THEN Trim(Tail(s), cutset)
    ELSE IF s[Len(s)] \in cutset THEN Trim(SubSeq(s, 1, Len(s) - 1), cutset)
    ELSE s

\* r.ReplaceAllString(title, "")
ReplaceAllString(title) == SelectSeq(title, LAMBDA ch : ch \notin IllegalChars)

\* first the trim, then the removal
getCleanChapterTitle(title) == ReplaceAllString(Trim(title, {" ", "."}))

\* the characters a scraped title is made of
TitleAlphabet == {"a", " ", ".", "?", "/"}

Titles == UNION {[1..k -> TitleAlphabet] : k \in 0..MaxTitleLen}

InitTitle ==
    /\ variant = "main"
    /\ input \in Titles
    /\ allChapters = <<>>
    /\ availableChapters = <<>>
    /\ ret = NoRet
    /\ selectedChapters = <<>>
    /\ status = "running"
    /\ pc = "scrape"
    /\ NoDownload

\* the OnHTML callback of getChapters
OnHTML ==
    /\ pc = "scrape"
    /\ allChapters' = <<Chapter(F(1, <<>>), getCleanChapterTitle(input))>>
    /\ pc' = "scraped"
    /\ UNCHANGED <<variant, input, availableChapters, ret, selectedChapters, status, dlVars>>

NextTitle == OnHTML

SpecTitle == InitTitle /\ [][NextTitle]_vars

(***************************************************************************)
(* Properties of parseChapterSelection                                     *)
(***************************************************************************)
Elems(s) == {s[i] : i \in DOMAIN s}

Returned == pc = "returned"

\* the comma-separated tokens of the input
Tokens == Split(input, ",")

\* a token that is a range x-y with both bounds numeric
IsNumericRange(tok) ==
    /\ Contains(tok, "-")
    /\ Len(Split(tok, "-")) = 2
    /\ ParseFloat(TrimSpace(Split(tok, "-")[1])).ok
    /\ ParseFloat(TrimSpace(Split(tok, "-")[2])).ok

RangeLow(tok) == ParseFloat(TrimSpace(Split(tok, "-")[1])).val

RangeHigh(tok) == ParseFloat(TrimSpace(Split(tok, "-")[2])).val

\* a token that is a single number
IsSingleNumber(tok) == ~Contains(tok, "-") /\ ParseFloat(TrimSpace(tok)).ok

SingleValue(tok) == ParseFloat(TrimSpace(tok)).val

SingleValues == {SingleValue(Tokens[i]) : i \in {j \in DOMAIN Tokens : IsSingleNumber(Tokens[j])}}

Available == Elems(availableChapters)

StrictlyAscending(s) == \A i, j \in DOMAIN s : i < j => Lt(s[i], s[j])

\* C1: for a single range token x-y with numeric bounds, x <= y gives exactly
\* the available chapters v with x <= v <= y, and x > y gives the error
\* InvalidRange and no selection.
C1_RangeInclusive ==
    (Returned /\ Len(Tokens) = 1 /\ IsNumericRange(input)) =>
        LET x == RangeLow(input)
            y == RangeHigh(input)
        IN  /\ Le(x, y) =>
                /\ ret.err = "nil"
                /\ Elems(ret.chapters) = {v \in Available : Le(x, v) /\ Le(v, y)}
            /\ Gt(x, y) =>
                /\ ret.err = "InvalidRange"
                /\ ret.chapters = <<>>

\* a range whose upper bound is an available chapter, selecting some but not
\* all of the catalogue
C1_Witness ==
    /\ Returned
    /\ Len(Tokens) = 1
    /\ IsNumericRange(input)
    /\ Le(RangeLow(input), RangeHigh(input))
    /\ ret.err = "nil"
    /\ RangeHigh(input) \in Elems(ret.chapters)
    /\ Elems(ret.chapters) # Available

\* C2: an input of single-number tokens, all present in availableChapters,
\* gives exactly the set of the listed numbers in ascending order, whatever
\* the order of the tokens and however often a number is repeated.
C2_ListedNumbersSorted ==
    (/\ Returned
     /\ \A i \in DOMAIN Tokens :
            /\ IsSingleNumber(Tokens[i])
            /\ \E a \in Available : Eq(a, SingleValue(Tokens[i]))) =>
        /\ ret.err = "nil"
        /\ Elems(ret.chapters) = SingleValues
        /\ Len(ret.chapters) = Cardinality(SingleValues)
        /\ StrictlyAscending(ret.chapters)

\* three tokens, one number listed twice, the larger number listed first
C2_Witness ==
    /\ Returned
    /\ Len(Tokens) = 3
    /\ \A i \in DOMAIN Tokens :
            /\ IsSingleNumber(Tokens[i])
            /\ \E a \in Available : Eq(a, SingleValue(Tokens[i]))
    /\ SingleValue(Tokens[1]) = SingleValue(Tokens[3])
    /\ Lt(SingleValue(Tokens[2]), SingleValue(Tokens[1]))
    /\ Len(ret.chapters) = 2

\* C3: on every input on which parseChapterSelection succeeds, the returned
\* sequence is strictly ascending (sorted, no duplicates).
C3_StrictlyAscending ==
    (Returned /\ ret.err = "nil") => StrictlyAscending(ret.chapters)

\* C4: every number of a successful result is an available chapter or the
\* value of a single-number token, and every single-number token's value is
\* in the result, available or not.
C4_RangesWithinAvailable ==
    (Returned /\ ret.err = "nil") =>
        /\ \A v \in Elems(ret.chapters) : v \in Available \/ v \in SingleValues
        /\ \A v \in SingleValues : v \in Elems(ret.chapters)

\* a range token next to a single number that is not in the catalogue
C4_Witness ==
    /\ Returned
    /\ ret.err = "nil"
    /\ \E i \in DOMAIN Tokens : IsNumericRange(Tokens[i])
    /\ \E v \in SingleValues : ~v.nan /\ v \notin Available /\ v \in Elems(ret.chapters)
    /\ \E v \in Elems(ret.chapters) : v \in Available /\ v \notin SingleValues
    /\ \E v \in Available : v \notin Elems(ret.chapters)

\* the number of '-' in a token
DashCount(tok) == Len(Split(tok, "-")) - 1

\* a string that denotes a number
IsNumber(str) == ParseFloat(TrimSpace(str)).ok /\ ~ParseFloat(TrimSpace(str)).val.nan

\* a range token with more than one '-', or with a side that is empty or
\* not a number
TooManyDashes(tok) == DashCount(tok) >= 2

BadSide(tok) ==
    /\ DashCount(tok) = 1
    /\ ~IsNumber(Split(tok, "-")[1]) \/ ~IsNumber(Split(tok, "-")[2])

\* a token that parseChapterSelection is to accept
WellFormed(tok) ==
    \/ DashCount(tok) = 0 /\ ParseFloat(TrimSpace(tok)).ok
    \/ IsNumericRange(tok) /\ ~Gt(RangeLow(tok), RangeHigh(tok))

\* C16: a token with more than one '-' gives an invalid-range-format error
\* (when the tokens before it are well-formed), a token with one '-' and an
\* empty or non-numeric side gives an error, and in both cases no selection
\* is returned, whatever the other tokens are.
C16_MalformedRangeRejected ==
    Returned =>
        \A i \in DOMAIN Tokens :
            /\ (TooManyDashes(Tokens[i]) \/ BadSide(Tokens[i])) =>
                   ret.err # "nil" /\ ret.chapters = <<>>
            /\ (TooManyDashes(Tokens[i]) /\ \A j \in 1..(i - 1) : WellFormed(Tokens[j])) =>
                   ret.err = "InvalidRangeFormat"

\* the tokens put together again with commas
RECURSIVE Join(_)
Join(toks) ==
    IF Len(toks) = 1 THEN toks[1]
    ELSE toks[1] \o <<",">> \o Join(Tail(toks))

\* a number written out in decimal digits
Decimal(v) ==
    FormatInt(v.ip)
    \o (IF v.frac = <<>> THEN <<>>
        ELSE <<".">> \o [i \in DOMAIN v.frac |-> DigitChar(v.frac[i])])

\* the available numbers a range token covers, in increasing order, as tokens
CoveredList(tok) ==
    LET covered == {a \in Available : Le(RangeLow(tok), a) /\ Le(a, RangeHigh(tok))}
        sorted  == SortFloat64s(covered)
    IN  [i \in DOMAIN sorted |-> Decimal(sorted[i])]

\* the tokens with token i replaced by the tokens toks
ReplaceToken(i, toks) ==
    SubSeq(Tokens, 1, i - 1) \o toks \o SubSeq(Tokens, i + 1, Len(Tokens))

\* C17: a successful result depends only on the set of numbers the tokens
\* contribute: exchanging two tokens, repeating a token, or replacing a range
\* by the comma list of the available numbers it covers gives the same result.
C17_DependsOnNumberSetOnly ==
    (Returned /\ ret.err = "nil") =>
        /\ \A i, j \in DOMAIN Tokens :
               parseChapterSelection(
                   Join([k \in DOMAIN Tokens |->
                            IF k = i THEN Tokens[j] ELSE IF k = j THEN Tokens[i] ELSE Tokens[k]]),
                   availableChapters) = ret
        /\ \A i \in DOMAIN Tokens :
               parseChapterSelection(Join(Tokens \o <<Tokens[i]>>), availableChapters) = ret
        /\ \A i \in DOMAIN Tokens :
               (IsNumericRange(Tokens[i]) /\ CoveredList(Tokens[i]) # <<>>) =>
                   parseChapterSelection(Join(ReplaceToken(i, CoveredList(Tokens[i]))),
                                         availableChapters) = ret

\* a range token that is well-formed and covers no available chapter
EmptyRange(tok) ==
    /\ IsNumericRange(tok)
    /\ ~Gt(RangeLow(tok), RangeHigh(tok))
    /\ ~\E a \in Available : Le(RangeLow(tok), a) /\ Le(a, RangeHigh(tok))

\* C18: an input whose tokens are all well-formed and contribute no number
\* gives an empty selection and no error.
C18_EmptyResultIsNoError ==
    (Returned /\ \A i \in DOMAIN Tokens : EmptyRange(Tokens[i])) =>
        ret.err = "nil" /\ ret.chapters = <<>>

\* a range between numbers, against a catalogue that has chapters but none
\* in the range
C18_Witness ==
    /\ Returned
    /\ Available # {}
    /\ \A i \in DOMAIN Tokens :
           EmptyRange(Tokens[i]) /\ ~RangeLow(Tokens[i]).nan /\ ~RangeHigh(Tokens[i]).nan
    /\ ret.err = "nil"
    /\ ret.chapters = <<>>

SameResult(r1, r2) ==
    \/ r1.err # "nil" /\ r2.err # "nil"
    \/ r1.err = "nil" /\ r2.err = "nil" /\ r1.chapters = r2.chapters

\* C25: on every input string and every availableChapters the
\* parseChapterSelection of main.go, of part_000 and of part_001 return the
\* same selection, or all return an error.
C25_ParsersEquivalent ==
    pc = "returned" =>
        \A v \in ParserVariants : SameResult(ret, ParserOf(v, input, availableChapters))

(***************************************************************************)
(* Properties of chapterSelection                                          *)
(***************************************************************************)
\* the chapters of the catalogue whose number is in the parsed selection
CatalogueSelected ==
    {c \in Elems(allChapters) : \E n \in Elems(ret.chapters) : Eq(c.Number, n)}

UniqueNumbers ==
    \A i, j \in DOMAIN allChapters : allChapters[i].Number = allChapters[j].Number => i = j

\* C5 as stated: the resolved list holds exactly the catalogue chapters
\* whose number is in the selection, and resolving ends in no error.
C5_ExactlyCatalogueSelected ==
    pc = "resolved" =>
        /\ Elems(selectedChapters) = CatalogueSelected
        /\ status = "running"

\* C5 amended: the resolved list holds only catalogue chapters whose number
\* is in the selection, at least one for every selected number the catalogue
\* has, and all of them when the catalogue's numbers are unique (main.go:
\* all of them in any case); resolving ends in no error.
C5_OnlyCatalogueSelected ==
    pc = "resolved" =>
        /\ Elems(selectedChapters) \subseteq CatalogueSelected
        /\ \A c \in CatalogueSelected :
               \E d \in Elems(selectedChapters) : Eq(d.Number, c.Number)
        /\ (UniqueNumbers \/ variant = "main") =>
               Elems(selectedChapters) = CatalogueSelected
        /\ status = "running"

\* a selection of one number the catalogue has and one it has not
C5_Witness ==
    /\ pc = "resolved"
    /\ variant = "part_001"
    /\ Len(ret.chapters) = 2
    /\ Len(selectedChapters) = 1
    /\ \E n \in Elems(ret.chapters) : ~n.nan /\ n \notin Available

\* C6: a parse error is reported and the user is prompted again; it never
\* makes chapterSelection return an error or the process terminate.
C6_ParseErrorPromptsAgain ==
    ret.err \notin {"none", "nil"} => (pc = "prompt" /\ status = "running")

\* C7: downloadSelectedChapters is never started with an empty chapter list.
C7_DownloadNonEmpty ==
    pc = "download" => Len(selectedChapters) > 0

(***************************************************************************)
(* Properties of the download                                              *)
(***************************************************************************)
\* C8: the process ends with status 0 only if every image of every selected
\* chapter was downloaded with downloadImage returning no error.
C8_ExitZeroOnlyIfAllDownloaded ==
    status = "exit0" =>
        \A c \in 1..NumSelected : \A k \in ImagesOf(c) : img[c][k].own = "nil"

\* C9: a chapter's bar is incremented exactly once for each image whose own
\* downloadImage call returned nil, and never for an image whose own call
\* returned an error.
C9_IncrementOncePerOwnSuccess ==
    \A c \in 1..NumSelected : \A k \in 1..MaxImages :
        /\ img[c][k].incremented <= 1
        /\ img[c][k].incremented = 1 => img[c][k].own = "nil"
        /\ (img[c][k].pc = "done" /\ img[c][k].own = "nil") => img[c][k].incremented = 1

\* C10: downloadSelectedChapters returns only after every chapter goroutine
\* and every image goroutine of every selected chapter has terminated.
C10_ReturnsAfterAllGoroutines ==
    pc \in {"returned", "exited"} =>
        \A c \in 1..NumSelected :
            /\ chap[c].pc = "done"
            /\ chap[c].spawned = chap[c].n
            /\ \A k \in ImagesOf(c) : img[c][k].pc = "done"

\* main.go has returned from a download of two chapters with images
C10_Witness ==
    /\ variant = "main"
    /\ pc = "returned"
    /\ NumSelected = 2
    /\ \A c \in 1..NumSelected : chap[c].n >= 1 /\ img[c][1].pc = "done"

\* C11: in archive mode the creation of a chapter's archive starts only after
\* every image goroutine of that chapter has terminated.
C11_ArchiveAfterImageGoroutines ==
    \A c \in 1..NumSelected :
        (chap[c].pc = "archive" \/ chap[c].archived) =>
            /\ chap[c].spawned = chap[c].n
            /\ \A k \in ImagesOf(c) : img[c][k].pc = "done"

\* a chapter of two images has been archived
C11_Witness ==
    /\ createCbz
    /\ \E c \in 1..NumSelected : chap[c].archived /\ chap[c].n >= 2

\* the selected chapters carry different numbers
SelectedNumbersUnique ==
    \A c, d \in 1..NumSelected : c # d => selectedChapters[c].Number # selectedChapters[d].Number

\* the image goroutines that have handed a filename to downloadImage
Writers == {w \in (1..NumSelected) \X (1..MaxImages) : img[w[1]][w[2]].file # <<>>}

\* C14: within a chapter one image goroutine is started per image URL; the
\* goroutine of the image at position k (from 1) writes only the file named k,
\* zero-padded to three digits, plus the URL's extension; chapter numbers
\* being unique, no two goroutines of the run write the same path.
C14_DisjointFilenames ==
    /\ \A c \in 1..NumSelected :
           /\ chap[c].spawned <= chap[c].n
           /\ \A k \in 1..MaxImages : img[c][k].pc # "idle" <=> k <= chap[c].spawned
           /\ chap[c].pc \in {"archive", "return", "done"} => chap[c].spawned = chap[c].n
    /\ \A w \in Writers :
           LET name == img[w[1]][w[2]].file[2]
           IN  /\ Len(name) >= 3
               /\ \A i \in 1..3 : name[i] \in Digits
               /\ DecValue(SubSeq(name, 1, 3)) = w[2]
               /\ SubSeq(name, 4, Len(name)) = Ext(ImageURL(w[2]))
    /\ SelectedNumbersUnique =>
           \A v, w \in Writers : v # w => img[v[1]][v[2]].file # img[w[1]][w[2]].file

\* two chapters with unique numbers each write their image 001, and so does
\* the second image goroutine of a chapter
C14_Witness ==
    /\ SelectedNumbersUnique
    /\ \/ \E c \in 1..NumSelected : {<<c, 1>>, <<c, 2>>} \subseteq Writers
       \/ NumSelected >= 2 /\ {<<1, 1>>, <<2, 1>>} \subseteq Writers

\* C15: a response with a non-2xx status makes downloadImage return an
\* error, as a connection error does, and the image is not counted as
\* downloaded.
C15_Non2xxIsFailure ==
    \A c \in 1..NumSelected : \A k \in 1..MaxImages :
        img[c][k].resp = "non2xx" =>
            /\ img[c][k].own # "nil"
            /\ img[c][k].incremented = 0

\* what the image goroutines of chapter c have written: path and content,
\* the content being the body of the URL fetched
Written(c) == {<<img[c][k].file, img[c][k].url>> : k \in ImagesOf(c)}

\* the run has returned and every downloadImage call returned nil
AllSucceeded ==
    /\ pc \in {"returned", "exited"}
    /\ \A c \in 1..NumSelected : \A k \in ImagesOf(c) : img[c][k].own = "nil"

\* C23: when all downloads succeed, whatever the order the image and
\* chapter goroutines ran in, file number k of a chapter holds the content
\* of the chapter's k-th image URL, and the files written are the same.
C23_ContentIndependentOfOrder ==
    AllSucceeded =>
        \A c \in 1..NumSelected :
            Written(c) =
                {<<Filename(selectedChapters[c], k - 1, ImageURL(k)), ImageURL(k)>> :
                    k \in 1..chap[c].n}

C23_Witness ==
    /\ AllSucceeded
    /\ \E c \in 1..NumSelected : chap[c].n = 2 /\ Cardinality(Written(c)) = 2

\* the chapter number as the claim writes it: the integer part in three
\* digits, then the fraction if there is one
PaddedNumber(number) ==
    PadZero3(FormatInt(number.ip))
        \o (IF number.frac = <<>> THEN <<>>
            ELSE <<".">> \o [i \in DOMAIN number.frac |-> DigitChar(number.frac[i])])

IsPrefix(s, t) == Len(s) <= Len(t) /\ SubSeq(t, 1, Len(s)) = s

\* the byte of a character of a directory name
Byte(ch) ==
    CASE ch = " " -> 32 [] ch = "." -> 46
      [] ch \in Digits -> 48 + DigitVal(ch)
      [] ch = "a" -> 97 [] ch = "b" -> 98 [] ch = "c" -> 99
      [] ch = "d" -> 100 [] ch = "e" -> 101

\* the order of strings byte by byte
RECURSIVE LexLess(_, _)
LexLess(s, t) ==
    IF t = <<>> THEN FALSE
    ELSE IF s = <<>> THEN TRUE
    ELSE IF Head(s) # Head(t) THEN Byte(Head(s)) < Byte(Head(t))
    ELSE LexLess(Tail(s), Tail(t))

\* the chapters whose directory downloadImages has made
DirMade == {c \in 1..NumSelected : chap[c].pc \notin {"idle", "getImageURLs", "mkdir"}}

\* C24: the name of a chapter directory begins with the chapter number, its
\* integer part padded with zeros to three digits, for whole and fractional
\* numbers alike, so the names are ordered as the numbers are.
C24_PaddedDirectoryName ==
    /\ \A c \in DirMade :
           IsPrefix(PaddedNumber(selectedChapters[c].Number), DirPath(selectedChapters[c]))
    /\ \A c, d \in DirMade :
           Lt(selectedChapters[c].Number, selectedChapters[d].Number)
               => LexLess(DirPath(selectedChapters[c]), DirPath(selectedChapters[d]))

\* the goroutines that have been registered with wg.Add(1) and have not
\* called wg.Done()
RegisteredChapters == {c \in 1..NumSelected : chap[c].pc \notin {"idle", "done"}}

RegisteredImages ==
    {w \in (1..NumSelected) \X (1..MaxImages) : img[w[1]][w[2]].pc \notin {"idle", "done"}}

\* chapter c has no image worker left that is unregistered or unfinished
WorkersDone(c) ==
    /\ chap[c].pc = "done"
    /\ chap[c].spawned = chap[c].n
    /\ \A k \in ImagesOf(c) : img[c][k].pc = "done"

\* the counter of main.go's shared WaitGroup counts the registered goroutines
CounterExact ==
    /\ wg = Cardinality(RegisteredChapters) + Cardinality(RegisteredImages)
    /\ wg >= 0

\* C26: in main.go the counter of the shared WaitGroup equals the number of
\* chapter and image goroutines registered and not yet done and is never
\* negative; once the loop of downloadSelectedChapters has registered every
\* selected chapter, it is zero only when no selected chapter has an image
\* worker left that is unregistered or unfinished.
C26_SharedCounter ==
    variant = "main" =>
        /\ CounterExact
        /\ (started = NumSelected /\ wg = 0) => \A c \in 1..NumSelected : WorkersDone(c)

\* the loop is over, two chapters and their images are done, p.Wait() has
\* not been called yet
C26_Witness ==
    /\ variant = "main"
    /\ pc = "spawn"
    /\ started = NumSelected
    /\ NumSelected = 2
    /\ wg = 0
    /\ \A c \in 1..NumSelected : chap[c].n = 1 /\ img[c][1].pc = "done"

\* C26 as stated: in every reachable state the counter is not zero while a
\* selected chapter has an image worker that is unregistered or unfinished.
C26_NeverZeroWhileWorkersLeft ==
    variant = "main" =>
        /\ CounterExact
        /\ wg = 0 => \A c \in 1..NumSelected : WorkersDone(c)

\* C27: the count of a chapter's progress bar is never above its total, the
\* number of the chapter's image URLs, and when downloadSelectedChapters
\* returns normally every chapter's count equals its total.
C27_BarWithinTotal ==
    /\ \A c \in 1..NumSelected :
           /\ chap[c].barAdded => chap[c].barTotal = chap[c].n
           /\ chap[c].barCurrent <= chap[c].barTotal
    /\ pc \in {"returned", "exited"} =>
           \A c \in 1..NumSelected :
               /\ chap[c].barAdded
               /\ chap[c].barCurrent = chap[c].n

\* part_001 has returned from a chapter of two images, both counted
C27_Witness ==
    /\ variant = "part_001"
    /\ pc = "returned"
    /\ \E c \in 1..NumSelected : chap[c].barTotal = 2 /\ chap[c].barCurrent = 2

\* C28: no wait on the shared progress container completes, and shuts it
\* down, while a selected chapter has not yet added its bar.
C28_BarsAddedBeforeShutdown ==
    PShutdown => \A c \in 1..NumSelected : chap[c].barAdded

(***************************************************************************)
(* Properties of the archive                                               *)
(***************************************************************************)
\* the image files the chapter directory held when the archive step began
SourceFiles(c) == {img[c][k].file : k \in {j \in ImagesOf(c) : img[c][j].own = "nil"}}

\* C12: if any step of creating the archive failed (creating the file, adding
\* an image file, closing the zip writer), the chapter directory and its
\* image files are still present afterwards.
C12_DirectoryKeptOnArchiveFailure ==
    \A c \in 1..NumSelected :
        chap[c].cbzFail # "none" =>
            chap[c].dirExists /\ chap[c].dir = SourceFiles(c)

\* C13: after createCbzArchive has returned, either it returned nil and the
\* archive file is complete, holding every file of the source directory, or
\* it returned an error and there is no file at the archive's path.
C13_ArchiveAtomic ==
    \A c \in 1..NumSelected :
        chap[c].cbzErr # "none" =>
            \/ /\ chap[c].cbzErr = "nil"
               /\ chap[c].cbz = "closed"
               /\ chap[c].entries = SourceFiles(c)
            \/ /\ chap[c].cbzErr = "error"
               /\ chap[c].cbz = "none"

(***************************************************************************)
(* Properties of promptForCbzCreation                                      *)
(***************************************************************************)
UpperChar(c) ==
    CASE c = "y" -> "Y" [] c = "e" -> "E" [] c = "s" -> "S"
      [] c = "n" -> "N" [] c = "o" -> "O" [] OTHER -> c

\* the line read consists of the word, in upper or lower case letters, with
\* nothing but white space before and after it
Says(word) ==
    \E i \in 1..(Len(input) + 1) :
        LET j == i + Len(word) - 1
        IN  /\ j <= Len(input)
            /\ \A k \in 1..Len(word) : input[i + k - 1] \in {word[k], UpperChar(word[k])}
            /\ \A k \in DOMAIN input : (k < i \/ k > j) => input[k] \in WhiteSpace

SaysYes == Says(<<"y">>) \/ Says(<<"y", "e", "s">>)

SaysNo == Says(<<"n">>) \/ Says(<<"n", "o">>) \/ Says(<<>>)

\* C20: promptForCbzCreation returns true exactly on the answers y and yes,
\* false exactly on n, no and the empty answer (trimmed, in any case of
\* letters), and on any other answer it does not return but asks again.
C20_CbzAnswer ==
    /\ [](pc = "cbzreturned" =>
             /\ createCbz <=> SaysYes
             /\ ~createCbz <=> SaysNo)
    /\ [][pc = "cbzswitch" =>
             IF SaysYes \/ SaysNo
             THEN pc' = "cbzreturned" /\ input' = input
             ELSE pc' = "cbzprompt" /\ createCbz' = createCbz]_vars

\* true was returned on a Y typed in upper case after a blank
C20_Witness ==
    /\ pc = "cbzreturned"
    /\ createCbz
    /\ Contains(input, "Y")
    /\ Contains(input, " ")


(***************************************************************************)
(* Properties of getCleanChapterTitle                                      *)
(***************************************************************************)
\* C21: the title getCleanChapterTitle returns contains none of the
\* characters < > : " / \ | ? * and neither begins nor ends with a space or
\* a dot.
C21_CleanTitle ==
    pc = "scraped" =>
        LET title == allChapters[1].Title
        IN  /\ \A i \in DOMAIN title : title[i] \notin IllegalChars
            /\ title # <<>> =>
                   /\ title[1] \notin {" ", "."}
                   /\ title[Len(title)] \notin {" ", "."}


(***************************************************************************)
(* Properties of the download under fair scheduling                        *)
(***************************************************************************)
\* a request, a download or a step on the disk has failed
Failed ==
    \/ status = "exit1"
    \/ \E c \in 1..NumSelected, k \in 1..MaxImages : img[c][k].own = "error"

\* C22: when no image-listing request and no image download fails, then
\* under fair scheduling downloadSelectedChapters eventually returns, for
\* every selection and every number of images per chapter, zero included.
C22_EventuallyReturns == <>(Failed \/ pc \in {"returned", "exited"})

=============================================================================
